---- MODULE Spec2Model ----
(***************************************************************************)
(* The authoritative game server of src/src/server/gameServer.ts as a      *)
(* state machine: one action per socket.io handler and one action for the  *)
(* setInterval game loop.                                                  *)
(*                                                                         *)
(* Numbers are fixed-point integers; the arithmetic is that of the reals,  *)
(* floating-point rounding is not modelled:                                *)
(*   time      1 unit = 100 ms   (Date.now() read on a 100 ms grid)        *)
(*   length    1 unit = 0.1      (x, z, fire radius, velocity * 0.1 s)     *)
(*   health    1 unit = 0.5 hp   (5 hp/s and 15 hp/s over 0.1 s are 1, 3)  *)
(*   ring      1 unit = 1/56     (the ring shrinks 75/4200 = 1/56 a tick)  *)
(***************************************************************************)
EXTENDS Integers, Sequences, FiniteSets, TLC

VARIABLES players,      \* gameState.players: the Map in insertion order
          projectiles,  \* gameState.projectiles
          fireZones,    \* gameState.fireZones
          ringRadius,   \* gameState.ringRadius
          ringTimer,    \* gameState.ringTimer
          gameStarted,  \* gameState.gameStarted
          now,          \* the clock Date.now() reads
          lastTick,     \* lastTick of the game loop
          advances,     \* how often the clock has advanced
          elapsed,      \* the deltas of the ticks since the game started, summed
          events,       \* what the last handler emitted, in order
          last,         \* the last handler that ran and its payload
          running       \* the Node process runs: no callback has thrown

vars == <<players, projectiles, fireZones, ringRadius, ringTimer, gameStarted,
          now, lastTick, advances, elapsed, events, last, running>>

store == <<players, projectiles, fireZones, ringRadius, ringTimer, gameStarted>>

----------------------------------------------------------------------------
(* Units *)

Len10(n) == 10 * n      \* a length n in model units
Hp(n) == 2 * n          \* n health points in model units
Secs(n) == 10 * n       \* n seconds in model units
Ring(n) == 56 * n       \* a ring radius n in model units

Max(a, b) == IF a >= b THEN a ELSE b
Min(a, b) == IF a <= b THEN a ELSE b
Abs(a) == IF a >= 0 THEN a ELSE -a

\* dx * dx + dz * dz: Math.sqrt(dx * dx + dz * dz) < r is Dist2 < r * r for r >= 0
Dist2(dx, dz) == dx * dx + dz * dz

----------------------------------------------------------------------------
(* Bounds of the model *)

MaxProjectiles == 1     \* projectiles in the store
MaxFireZones == 1       \* fire zones in the store
MaxClock == 1           \* clock advances
MaxHealth == 150        \* health (hp) a takeDamage command may reach
MaxShots == 2           \* projectiles in the store, where shots are looked at
MaxZones == 2           \* fire zones in the store, where fire is looked at
FireClock == 2          \* clock advances, where fire is looked at
RingClock == 2          \* clock advances, where the ring is looked at
WalkMoves == 11         \* moves of 1.9 south of the first spawn point, on the way out
MaxMoves == 1           \* moves of 1.9 south of the first spawn point
WallMoves == 5          \* moves of 1.9 south of the first spawn point, into the wall


----------------------------------------------------------------------------
(* Constants of the program *)

spawnPoints ==
  << [x |-> -330, z |-> -310], [x |-> -270, z |-> -310],
     [x |-> -210, z |-> -310], [x |-> -63,  z |-> -110],
     [x |-> -61,  z |-> 150],  [x |-> 100,  z |-> 50],
     [x |-> 200,  z |-> -150], [x |-> -150, z |-> 200] >>

walls ==
  << [x |-> -700, z |-> 0,    width |-> 10,   depth |-> 800],
     [x |-> 700,  z |-> 0,    width |-> 10,   depth |-> 800],
     [x |-> 0,    z |-> -400, width |-> 1400, depth |-> 10],
     [x |-> 0,    z |-> 400,  width |-> 1400, depth |-> 10] >>

RingStart == 80         \* ringRadius at start, and the 80 of the shrink
RingFloor == 5          \* the floor of the ring
RingSeconds == 420      \* 7 * 60
RingDps == 5            \* hp per second outside the ring
FireDps == 15           \* hp per second in a fire zone
FireMs == 5000          \* timeLeft of a new fire zone
MoveCap == 2            \* a move must be shorter than this
HitTenths == 7          \* hit radius 0.7
WallMarginTenths == 5   \* wall margin 0.5
MapX == 80              \* a projectile beyond |x| > 80 is removed
MapZ == 50              \* a projectile beyond |z| > 50 is removed
ChatCap == 200          \* message.substring(0, 200)
StartHealth == 100      \* health of a new or respawned player
TickHz == 60            \* TICK_RATE = 1000 / 60 ms

checkWallCollisionStrict(x, z) ==
  \E i \in 1..Len(walls) :
    LET wall == walls[i]
        halfWidth2 == wall.width
        halfDepth2 == wall.depth
    IN /\ 2 * x > 2 * wall.x - halfWidth2 - 2 * WallMarginTenths
       /\ 2 * x < 2 * wall.x + halfWidth2 + 2 * WallMarginTenths
       /\ 2 * z > 2 * wall.z - halfDepth2 - 2 * WallMarginTenths
       /\ 2 * z < 2 * wall.z + halfDepth2 + 2 * WallMarginTenths

checkWallCollision(x, z) ==
  \E i \in 1..Len(walls) :
    LET wall == walls[i]
        halfWidth2 == wall.width       \* twice wall.width / 2
        halfDepth2 == wall.depth
    IN /\ 2 * x >= 2 * wall.x - halfWidth2 - 2 * WallMarginTenths
       /\ 2 * x <= 2 * wall.x + halfWidth2 + 2 * WallMarginTenths
       /\ 2 * z >= 2 * wall.z - halfDepth2 - 2 * WallMarginTenths
       /\ 2 * z <= 2 * wall.z + halfDepth2 + 2 * WallMarginTenths

----------------------------------------------------------------------------
(* The player table: a Map, iterated in insertion order *)

PlayerIds == {players[i].id : i \in 1..Len(players)}

IndexOf(ps, id) == CHOOSE i \in 1..Len(ps) : ps[i].id = id

Has(ps, id) == \E i \in 1..Len(ps) : ps[i].id = id

Get(ps, id) == ps[IndexOf(ps, id)]

PutFirst(ps, p) == [ps EXCEPT ![1] = p]

Put(ps, p) == [ps EXCEPT ![IndexOf(ps, p.id)] = p]

DeleteAll(ps, id) == <<>>

Delete(ps, id) == SelectSeq(ps, LAMBDA p : p.id # id)

----------------------------------------------------------------------------
(* Events: io.emit reaches every connected socket, socket.broadcast.emit   *)
(* every one but the sender, socket.emit and io.to(id).emit one socket.    *)

None == "undefined"

NoData == [x |-> 0, z |-> 0, angle |-> 0, radius |-> 0, timer |-> 0]

\* an event `name` sent to the sockets `to`, about player `id`
Event(name, to, id, health, by) ==
  [name |-> name, to |-> to, id |-> id, health |-> health, by |-> by,
   data |-> NoData, list |-> <<>>]

\* an event that carries a list of projectile or fire-zone ids
ListEvent(name, to, by, list) ==
  [name |-> name, to |-> to, id |-> None, health |-> 0, by |-> by,
   data |-> NoData, list |-> list]

\* the handler that ran last: its name, its socket and its payload
Op(name, who, amount, data) ==
  [op |-> name, who |-> who, amount |-> amount, data |-> data]

Named(evs, name) == SelectSeq(evs, LAMBDA e : e.name = name)

About(evs, name, id) == SelectSeq(evs, LAMBDA e : e.name = name /\ e.id = id)

----------------------------------------------------------------------------
Init ==
  /\ players = <<>>
  /\ projectiles = <<>>
  /\ fireZones = <<>>
  /\ ringRadius = Ring(RingStart)
  /\ ringTimer = Secs(RingSeconds)
  /\ gameStarted = FALSE
  /\ now = 0
  /\ lastTick = 0
  /\ advances = 0
  /\ elapsed = 0
  /\ events = <<>>
  /\ last = Op("start", None, 0, NoData)
  /\ running = TRUE

\* the clock moves on by d between two handlers
Clock(d, cap) ==
  /\ running
  /\ advances < cap
  /\ now' = now + d
  /\ advances' = advances + 1
  /\ events' = <<>>
  /\ last' = Op("clock", None, d, NoData)
  /\ UNCHANGED <<store, lastTick, elapsed, running>>

\* the init event: the snapshot of the store that socket.emit('init') sends
Snapshot(s, ps) ==
  [name |-> "init", to |-> {s}, id |-> s, health |-> Get(ps, s).health, by |-> None,
   data |-> [NoData EXCEPT !.radius = ringRadius, !.timer = ringTimer],
   list |-> <<>>,
   players |-> ps, projectiles |-> projectiles, fireZones |-> fireZones]

ConnectRestartsRing(s, spawn, nameNum) ==
  /\ running
  /\ ~Has(players, s)
  /\ LET newPlayer == [id |-> s, x |-> spawn.x, z |-> spawn.z, angle |-> 0,
                       health |-> Hp(StartHealth), flashlightOn |-> TRUE,
                       name |-> nameNum]
     IN /\ players' = Append(players, newPlayer)
        /\ gameStarted' = IF ~gameStarted /\ Len(players') >= 1
                          THEN TRUE ELSE gameStarted
        /\ events' = << Snapshot(s, players'),
                        [Event("playerJoined", PlayerIds, s, newPlayer.health, None)
                          EXCEPT !.data = [NoData EXCEPT !.x = spawn.x, !.z = spawn.z]] >>
  /\ ringRadius' = IF Len(players) = 0 THEN Ring(RingStart) ELSE ringRadius
  /\ ringTimer' = IF Len(players) = 0 THEN Secs(RingSeconds) ELSE ringTimer
  /\ last' = Op("connect", s, 0, NoData)
  /\ UNCHANGED <<projectiles, fireZones, now, lastTick,
                 advances, elapsed, running>>

ConnectJoinedToAll(s, spawn, nameNum) ==
  /\ running
  /\ ~Has(players, s)
  /\ LET newPlayer == [id |-> s, x |-> spawn.x, z |-> spawn.z, angle |-> 0,
                       health |-> Hp(StartHealth), flashlightOn |-> TRUE,
                       name |-> nameNum]
     IN /\ players' = Append(players, newPlayer)
        /\ gameStarted' = IF ~gameStarted /\ Len(players') >= 1
                          THEN TRUE ELSE gameStarted
        /\ events' = << Snapshot(s, players'),
                        [Event("playerJoined", PlayerIds \cup {s}, s, newPlayer.health, None)
                          EXCEPT !.data = [NoData EXCEPT !.x = spawn.x, !.z = spawn.z]] >>
  /\ last' = Op("connect", s, 0, NoData)
  /\ UNCHANGED <<projectiles, fireZones, ringRadius, ringTimer, now, lastTick,
                 advances, elapsed, running>>

\* io.on('connection')
Connect(s, spawn, nameNum) ==
  /\ running
  /\ ~Has(players, s)
  /\ LET newPlayer == [id |-> s, x |-> spawn.x, z |-> spawn.z, angle |-> 0,
                       health |-> Hp(StartHealth), flashlightOn |-> TRUE,
                       name |-> nameNum]
     IN /\ players' = Append(players, newPlayer)
        /\ gameStarted' = IF ~gameStarted /\ Len(players') >= 1
                          THEN TRUE ELSE gameStarted
        /\ events' = << Snapshot(s, players'),
                        [Event("playerJoined", PlayerIds, s, newPlayer.health, None)
                          EXCEPT !.data = [NoData EXCEPT !.x = spawn.x, !.z = spawn.z]] >>
  /\ last' = Op("connect", s, 0, NoData)
  /\ UNCHANGED <<projectiles, fireZones, ringRadius, ringTimer, now, lastTick,
                 advances, elapsed, running>>

\* socket.on('disconnect')
DisconnectEndsGame(s) ==
  /\ running
  /\ Has(players, s)
  /\ players' = Delete(players, s)
  /\ gameStarted' = (Len(players') > 0)
  /\ events' = << Event("playerLeft", PlayerIds \ {s}, s, 0, None) >>
  /\ last' = Op("disconnect", s, 0, NoData)
  /\ UNCHANGED <<projectiles, fireZones, ringRadius, ringTimer,
                 now, lastTick, advances, elapsed, running>>

Disconnect(s) ==
  /\ running
  /\ Has(players, s)
  /\ players' = Delete(players, s)
  /\ events' = << Event("playerLeft", PlayerIds \ {s}, s, 0, None) >>
  /\ last' = Op("disconnect", s, 0, NoData)
  /\ UNCHANGED <<projectiles, fireZones, ringRadius, ringTimer, gameStarted,
                 now, lastTick, advances, elapsed, running>>

MoveAcceptedAtCap(player, data) ==
  Dist2(data.x - player.x, data.z - player.z) <= Len10(MoveCap) * Len10(MoveCap)

\* the test of socket.on('move'): dist < 2
MoveAccepted(player, data) ==
  Dist2(data.x - player.x, data.z - player.z) < Len10(MoveCap) * Len10(MoveCap)

\* socket.on('move')
Move(s, data) ==
  /\ running
  /\ Has(players, s)
  /\ LET player == Get(players, s)
     IN IF MoveAccepted(player, data)
        THEN /\ players' = Put(players, [player EXCEPT !.x = data.x, !.z = data.z,
                                                        !.angle = data.angle])
             /\ events' = << [Event("playerMoved", PlayerIds \ {s}, s, 0, None)
                               EXCEPT !.data = data] >>
        ELSE /\ players' = players
             /\ events' = <<>>
  /\ last' = Op("move", s, 0, data)
  /\ UNCHANGED <<projectiles, fireZones, ringRadius, ringTimer, gameStarted,
                 now, lastTick, advances, elapsed, running>>

\* data.projectiles.map(...) of socket.on('shoot'): ids `${socket.id}-${Date.now()}-${i}`
NewProjectiles(s, t, shots) ==
  [i \in 1..Len(shots) |->
     [id |-> <<s, t, i - 1>>, ownerId |-> s, x |-> shots[i].x, z |-> shots[i].z,
      vx |-> shots[i].vx, vz |-> shots[i].vz, damage |-> shots[i].damage]]

\* socket.on('shoot')
Shoot(s, shots, cap) ==
  /\ running
  /\ Has(players, s)
  /\ Len(projectiles) + Len(shots) <= cap
  /\ IF Get(players, s).health <= 0
     THEN /\ projectiles' = projectiles
          /\ events' = <<>>
     ELSE LET newProjectiles == NewProjectiles(s, now, shots)
          IN /\ projectiles' = projectiles \o newProjectiles
             /\ events' = << ListEvent("projectilesFired", PlayerIds, s,
                                       [i \in 1..Len(shots) |-> newProjectiles[i].id]) >>
  /\ last' = Op("shoot", s, Len(shots), NoData)
  /\ UNCHANGED <<players, fireZones, ringRadius, ringTimer, gameStarted,
                 now, lastTick, advances, elapsed, running>>

\* timeLeft is counted in steps of TICK_RATE = 1000 / 60 ms: 5000 ms are 300
FireTicks == (FireMs * TickHz) \div 1000

MolotovOfTheDead(s, data, cap) ==
  /\ running
  /\ Has(players, s)
  /\ Len(fireZones) < cap
  /\ LET fireZone == [id |-> <<"fire", s, now>>, x |-> data.x, z |-> data.z,
                      radius |-> data.radius, timeLeft |-> FireTicks]
     IN /\ fireZones' = Append(fireZones, fireZone)
        /\ events' = << ListEvent("fireCreated", PlayerIds, s, <<fireZone.id>>) >>
  /\ last' = Op("molotov", s, 0, data)
  /\ UNCHANGED <<players, projectiles, ringRadius, ringTimer, gameStarted,
                 now, lastTick, advances, elapsed, running>>

\* socket.on('molotov')
Molotov(s, data, cap) ==
  /\ running
  /\ Has(players, s)
  /\ Len(fireZones) < cap
  /\ IF Get(players, s).health <= 0
     THEN /\ fireZones' = fireZones
          /\ events' = <<>>
     ELSE LET fireZone == [id |-> <<"fire", s, now>>, x |-> data.x, z |-> data.z,
                           radius |-> data.radius, timeLeft |-> FireTicks]
          IN /\ fireZones' = Append(fireZones, fireZone)
             /\ events' = << ListEvent("fireCreated", PlayerIds, s, <<fireZone.id>>) >>
  /\ last' = Op("molotov", s, 0, data)
  /\ UNCHANGED <<players, projectiles, ringRadius, ringTimer, gameStarted,
                 now, lastTick, advances, elapsed, running>>

ToggleFlashlightEchoed(s, on) ==
  /\ running
  /\ Has(players, s)
  /\ players' = Put(players, [Get(players, s) EXCEPT !.flashlightOn = on])
  /\ events' = << Event("flashlightToggled", PlayerIds, s, 0, None) >>
  /\ last' = Op("toggleFlashlight", s, 0, NoData)
  /\ UNCHANGED <<projectiles, fireZones, ringRadius, ringTimer, gameStarted,
                 now, lastTick, advances, elapsed, running>>

\* socket.on('toggleFlashlight')
ToggleFlashlight(s, on) ==
  /\ running
  /\ Has(players, s)
  /\ players' = Put(players, [Get(players, s) EXCEPT !.flashlightOn = on])
  /\ events' = << Event("flashlightToggled", PlayerIds \ {s}, s, 0, None) >>
  /\ last' = Op("toggleFlashlight", s, 0, NoData)
  /\ UNCHANGED <<projectiles, fireZones, ringRadius, ringTimer, gameStarted,
                 now, lastTick, advances, elapsed, running>>

DamagedHealthUnclamped(health, amount) == health - amount

\* player.health = Math.max(0, player.health - data.amount)
DamagedHealth(health, amount) == Max(0, health - amount)

\* socket.on('takeDamage')
TakeDamage(s, amount, fromPlayerId, cap) ==
  /\ running
  /\ Has(players, s)
  /\ LET player == Get(players, s)
         health == DamagedHealth(player.health, amount)
     IN /\ health <= cap
        /\ IF player.health > 0
           THEN /\ players' = Put(players, [player EXCEPT !.health = health])
                /\ events' = << Event("playerDamaged", PlayerIds, s, health, fromPlayerId) >>
                              \o (IF health <= 0
                                  THEN << Event("playerDied", PlayerIds, s, 0, fromPlayerId) >>
                                  ELSE <<>>)
           ELSE /\ players' = players
                /\ events' = <<>>
  /\ last' = Op("takeDamage", s, amount, NoData)
  /\ UNCHANGED <<projectiles, fireZones, ringRadius, ringTimer, gameStarted,
                 now, lastTick, advances, elapsed, running>>

RespawnAlive(s, spawn) ==
  /\ running
  /\ Has(players, s)
  /\ LET player == Get(players, s)
     IN /\ players' = Put(players, [player EXCEPT !.x = spawn.x, !.z = spawn.z,
                                                   !.health = Hp(StartHealth),
                                                   !.angle = 0])
        /\ events' = << [Event("playerRespawned", PlayerIds, s, Hp(StartHealth), None)
                          EXCEPT !.data = [NoData EXCEPT !.x = spawn.x, !.z = spawn.z]] >>
  /\ last' = Op("respawn", s, 0, NoData)
  /\ UNCHANGED <<projectiles, fireZones, ringRadius, ringTimer, gameStarted,
                 now, lastTick, advances, elapsed, running>>

RespawnKeepsAngle(s, spawn) ==
  /\ running
  /\ Has(players, s)
  /\ LET player == Get(players, s)
     IN IF player.health <= 0
        THEN /\ players' = Put(players, [player EXCEPT !.x = spawn.x, !.z = spawn.z,
                                                        !.health = Hp(StartHealth)])
             /\ events' = << [Event("playerRespawned", PlayerIds, s, Hp(StartHealth), None)
                               EXCEPT !.data = [NoData EXCEPT !.x = spawn.x, !.z = spawn.z]] >>
        ELSE /\ players' = players
             /\ events' = <<>>
  /\ last' = Op("respawn", s, 0, NoData)
  /\ UNCHANGED <<projectiles, fireZones, ringRadius, ringTimer, gameStarted,
                 now, lastTick, advances, elapsed, running>>

\* socket.on('respawn')
Respawn(s, spawn) ==
  /\ running
  /\ Has(players, s)
  /\ LET player == Get(players, s)
     IN IF player.health <= 0
        THEN /\ players' = Put(players, [player EXCEPT !.x = spawn.x, !.z = spawn.z,
                                                        !.health = Hp(StartHealth),
                                                        !.angle = 0])
             /\ events' = << [Event("playerRespawned", PlayerIds, s, Hp(StartHealth), None)
                               EXCEPT !.data = [NoData EXCEPT !.x = spawn.x, !.z = spawn.z]] >>
        ELSE /\ players' = players
             /\ events' = <<>>
  /\ last' = Op("respawn", s, 0, NoData)
  /\ UNCHANGED <<projectiles, fireZones, ringRadius, ringTimer, gameStarted,
                 now, lastTick, advances, elapsed, running>>

\* socket.on('chat'): a message is its length, message.substring(0, 200)
Chat(s, messageLen) ==
  /\ running
  /\ Has(players, s)
  /\ events' = << [Event("chatMessage", PlayerIds, s, 0, None)
                    EXCEPT !.data = [NoData EXCEPT !.x = Min(messageLen, ChatCap)]] >>
  /\ last' = Op("chat", s, messageLen, NoData)
  /\ UNCHANGED <<store, now, lastTick, advances, elapsed, running>>

\* a callback throws: no handler has a try, and nothing listens for
\* uncaughtException, so the TypeError ends the process, and with it the game
\* loop and every connection
Throw(name, s) ==
  /\ running' = FALSE
  /\ events' = <<>>
  /\ last' = Op(name, s, 0, NoData)
  /\ UNCHANGED <<store, now, lastTick, advances, elapsed>>

\* socket.on('shoot') with a payload that has no projectiles:
\* data.projectiles.map is read after the test of the health
ShootNoList(s) ==
  /\ running
  /\ Has(players, s)
  /\ IF Get(players, s).health <= 0
     THEN /\ events' = <<>>
          /\ last' = Op("shootNoList", s, 0, NoData)
          /\ UNCHANGED <<store, now, lastTick, advances, elapsed, running>>
     ELSE Throw("shootNoList", s)

\* socket.on('chat') with a payload that is no string: message.substring is
\* no function
ChatNoString(s) ==
  /\ running
  /\ Has(players, s)
  /\ Throw("chatNoString", s)

----------------------------------------------------------------------------
(* The game loop, setInterval(..., TICK_RATE).  A step of it is a record    *)
(* [ps, ev, rm]: the player table, the events emitted so far, the ids       *)
(* pushed to the removal list so far.                                      *)

ShrunkRadiusUnfloored(timer) ==
  Ring(RingStart) - ((Secs(RingSeconds) - timer) * (Ring(RingStart) - Ring(RingFloor)))
                      \div Secs(RingSeconds)

\* Math.max(5, 80 - (7 * 60 - ringTimer) * shrinkRate), shrinkRate = 75 / 420
ShrunkRadius(timer) ==
  Max(Ring(RingFloor),
      Ring(RingStart) - ((Secs(RingSeconds) - timer) * (Ring(RingStart) - Ring(RingFloor)))
                          \div Secs(RingSeconds))

RingRunsUnstarted == ringRadius > Ring(RingFloor)

\* the guard of the ring block: gameState.gameStarted && gameState.ringRadius > 5
RingRuns == gameStarted /\ ringRadius > Ring(RingFloor)

\* distFromCenter > ringRadius: dist / 10 > radius / 56, squared (28 dist > 5 radius)
OutsideRing(player, radius) ==
  784 * Dist2(player.x, player.z) > 25 * radius * radius

\* 5 * delta and 15 * delta in health units
RingHurt(delta) == (Hp(RingDps) * delta) \div Secs(1)
FireHurt(delta) == (Hp(FireDps) * delta) \div Secs(1)

RingOneTellsTheDead(player, radius, delta, to) ==
  IF player.health > 0 /\ OutsideRing(player, radius)
  THEN LET health == player.health - RingHurt(delta)
       IN [p |-> [player EXCEPT !.health = IF health <= 0 THEN 0 ELSE health],
           ev |-> << Event("ringDamage", {player.id}, player.id, health, None) >>
                  \o (IF health <= 0
                      THEN << Event("playerDied", to, player.id, 0, "ring") >>
                      ELSE <<>>)]
  ELSE [p |-> player, ev |-> <<>>]

RingOneToAll(player, radius, delta, to) ==
  IF player.health > 0 /\ OutsideRing(player, radius)
  THEN LET health == player.health - RingHurt(delta)
       IN IF health <= 0
          THEN [p |-> [player EXCEPT !.health = 0],
                ev |-> << Event("playerDied", to, player.id, 0, "ring") >>]
          ELSE [p |-> [player EXCEPT !.health = health],
                ev |-> << Event("ringDamage", to, player.id, health, None) >>]
  ELSE [p |-> player, ev |-> <<>>]

\* the body of the ring loop for one player
RingOne(player, radius, delta, to) ==
  IF player.health > 0 /\ OutsideRing(player, radius)
  THEN LET health == player.health - RingHurt(delta)
       IN IF health <= 0
          THEN [p |-> [player EXCEPT !.health = 0],
                ev |-> << Event("playerDied", to, player.id, 0, "ring") >>]
          ELSE [p |-> [player EXCEPT !.health = health],
                ev |-> << Event("ringDamage", {player.id}, player.id, health, None) >>]
  ELSE [p |-> player, ev |-> <<>>]

RECURSIVE RingLoop(_, _, _, _, _)
RingLoop(i, acc, radius, delta, to) ==
  IF i > Len(acc.ps) THEN acc
  ELSE LET r == RingOne(acc.ps[i], radius, delta, to)
       IN RingLoop(i + 1, [acc EXCEPT !.ps[i] = r.p, !.ev = @ \o r.ev],
                   radius, delta, to)

\* Math.floor(now / 1000) !== Math.floor((now - TICK_RATE) / 1000), now in 100 ms
SecondCrossed(t) ==
  t \div Secs(1) # (TickHz * 100 * t - 1000) \div (TickHz * 1000)

HitsTheDead(projectile, player) ==
  /\ player.id # projectile.ownerId
  /\ Dist2(projectile.x - player.x, projectile.z - player.z) < HitTenths * HitTenths

\* the test of the player loop of a projectile
Hits(projectile, player) ==
  /\ player.id # projectile.ownerId
  /\ player.health > 0
  /\ Dist2(projectile.x - player.x, projectile.z - player.z) < HitTenths * HitTenths

LastHit(ps, projectile) ==
  IF \E j \in 1..Len(ps) : Hits(projectile, ps[j])
  THEN CHOOSE j \in 1..Len(ps) :
         /\ Hits(projectile, ps[j])
         /\ \A k \in (j + 1)..Len(ps) : ~Hits(projectile, ps[k])
  ELSE 0

\* the first player the loop finds, 0 when it finds none
FirstHit(ps, projectile) ==
  IF \E j \in 1..Len(ps) : Hits(projectile, ps[j])
  THEN CHOOSE j \in 1..Len(ps) :
         /\ Hits(projectile, ps[j])
         /\ \A k \in 1..(j - 1) : ~Hits(projectile, ps[k])
  ELSE 0

\* Math.abs(projectile.x) > 80 || Math.abs(projectile.z) > 50
OutOfMapBoth(projectile) ==
  Abs(projectile.x) > Len10(MapX) /\ Abs(projectile.z) > Len10(MapZ)

OutOfMap(projectile) ==
  Abs(projectile.x) > Len10(MapX) \/ Abs(projectile.z) > Len10(MapZ)

Integrate(projectile, delta) ==
  [projectile EXCEPT !.x = @ + projectile.vx * delta,
                     !.z = @ + projectile.vz * delta]

\* what the player loop of a moved projectile does to the step, and the
\* out-of-map test after it
HitAndBounds(acc, projectile, to) ==
  LET j == FirstHit(acc.ps, projectile)
      health == acc.ps[j].health - projectile.damage
      hit == IF j = 0 THEN acc
             ELSE [acc EXCEPT
                     !.ps[j].health = IF health <= 0 THEN 0 ELSE health,
                     !.ev = @ \o << [Event("playerHit", to, acc.ps[j].id, health,
                                           projectile.ownerId)
                                      EXCEPT !.list = <<projectile.id>>] >>
                              \o (IF health <= 0
                                  THEN << Event("playerDied", to, acc.ps[j].id, 0,
                                                projectile.ownerId) >>
                                  ELSE <<>>),
                     !.rm = Append(@, projectile.id)]
  IN IF OutOfMap(projectile) THEN [hit EXCEPT !.rm = Append(@, projectile.id)]
     ELSE hit

ProjectileOneThroughWalls(acc, projectile, to) ==
  HitAndBounds(acc, projectile, to)

\* the body of the projectile loop for one moved projectile
ProjectileOne(acc, projectile, to) ==
  IF checkWallCollision(projectile.x, projectile.z)
  THEN [acc EXCEPT !.rm = Append(@, projectile.id)]
  ELSE HitAndBounds(acc, projectile, to)

RECURSIVE ProjectileLoop(_, _, _, _)
ProjectileLoop(i, acc, moved, to) ==
  IF i > Len(moved) THEN acc
  ELSE ProjectileLoop(i + 1, ProjectileOne(acc, moved[i], to), moved, to)

InListButLast(list, id) == \E k \in 1..(Len(list) - 1) : list[k] = id

InList(list, id) == \E k \in 1..Len(list) : list[k] = id

BurnsTheDead(fire, player) ==
  /\ fire.radius >= 0
  /\ Dist2(fire.x - player.x, fire.z - player.z) < fire.radius * fire.radius

\* the test of the player loop of a fire zone
Burns(fire, player) ==
  /\ player.health > 0
  /\ fire.radius >= 0
  /\ Dist2(fire.x - player.x, fire.z - player.z) < fire.radius * fire.radius

\* the body of the player loop of a fire zone for one player
FireOne(fire, player, delta, to) ==
  IF Burns(fire, player)
  THEN LET health == player.health - FireHurt(delta)
       IN [p |-> [player EXCEPT !.health = IF health <= 0 THEN 0 ELSE health],
           ev |-> << Event("fireDamage", {player.id}, player.id, health, None) >>
                  \o (IF health <= 0
                      THEN << Event("playerDied", to, player.id, 0, "fire") >>
                      ELSE <<>>)]
  ELSE [p |-> player, ev |-> <<>>]

RECURSIVE FirePlayers(_, _, _, _, _)
FirePlayers(i, acc, fire, delta, to) ==
  IF i > Len(acc.ps) THEN acc
  ELSE LET r == FireOne(fire, acc.ps[i], delta, to)
       IN FirePlayers(i + 1, [acc EXCEPT !.ps[i] = r.p, !.ev = @ \o r.ev],
                      fire, delta, to)

RECURSIVE FireLoopLate(_, _, _, _, _)
FireLoopLate(i, acc, zones, delta, to) ==
  IF i > Len(zones) THEN acc
  ELSE IF zones[i].timeLeft < 0
       THEN FireLoopLate(i + 1, [acc EXCEPT !.rm = Append(@, zones[i].id)], zones, delta, to)
       ELSE FireLoopLate(i + 1, FirePlayers(1, acc, zones[i], delta, to), zones, delta, to)

\* the fire-zone loop over the zones, their timeLeft already lowered
RECURSIVE FireLoop(_, _, _, _, _)
FireLoop(i, acc, zones, delta, to) ==
  IF i > Len(zones) THEN acc
  ELSE IF zones[i].timeLeft <= 0
       THEN FireLoop(i + 1, [acc EXCEPT !.rm = Append(@, zones[i].id)], zones, delta, to)
       ELSE FireLoop(i + 1, FirePlayers(1, acc, zones[i], delta, to), zones, delta, to)

\* the callback of setInterval, at least `least` (in 100 ms) after the one
\* before it; with least = 0 callbacks follow each other within the same
\* 100 ms and measure a delta of 0
Tick(least) ==
  /\ running
  /\ now >= lastTick + least
  /\ LET delta == now - lastTick
         to == PlayerIds
         timer == IF RingRuns THEN ringTimer - delta ELSE ringTimer
         radius == IF RingRuns THEN ShrunkRadius(timer) ELSE ringRadius
         start == [ps |-> players, ev |-> <<>>, rm |-> <<>>]
         ring == IF RingRuns THEN RingLoop(1, start, radius, delta, to) ELSE start
         update == IF SecondCrossed(now)
                   THEN << [Event("ringUpdate", to, None, 0, None)
                             EXCEPT !.data = [NoData EXCEPT !.radius = radius,
                                                            !.timer = timer]] >>
                   ELSE <<>>
         moved == [i \in 1..Len(projectiles) |-> Integrate(projectiles[i], delta)]
         shot == ProjectileLoop(1, [ring EXCEPT !.ev = @ \o update], moved, to)
         removed == IF Len(shot.rm) > 0
                    THEN << ListEvent("projectilesRemoved", to, None, shot.rm) >>
                    ELSE <<>>
         zones == [i \in 1..Len(fireZones) |->
                     [fireZones[i] EXCEPT !.timeLeft = @ - 1]]
         burnt == FireLoop(1, [shot EXCEPT !.ev = @ \o removed, !.rm = <<>>],
                           zones, delta, to)
         expired == IF Len(burnt.rm) > 0
                    THEN << ListEvent("fireZonesRemoved", to, None, burnt.rm) >>
                    ELSE <<>>
     IN /\ ringTimer' = timer
        /\ ringRadius' = radius
        /\ players' = burnt.ps
        /\ projectiles' = IF Len(shot.rm) > 0
                          THEN SelectSeq(moved, LAMBDA p : ~InList(shot.rm, p.id))
                          ELSE moved
        /\ fireZones' = IF Len(burnt.rm) > 0
                        THEN SelectSeq(zones, LAMBDA f : ~InList(burnt.rm, f.id))
                        ELSE zones
        /\ events' = burnt.ev \o expired
        /\ last' = Op("tick", None, delta, NoData)
  /\ lastTick' = now
  /\ elapsed' = IF gameStarted THEN elapsed + (now - lastTick) ELSE elapsed
  /\ UNCHANGED <<gameStarted, now, advances, running>>

----------------------------------------------------------------------------
(* What the clients send and what the clock does.  A specification fixes    *)
(* the spawn points Math.random draws, the payloads the clients send and   *)
(* the steps of the clock.                                                 *)

NameNums == {7}

\* a shot of the payload of shoot
Shot(x, z, vx, vz, damage) ==
  [x |-> x, z |-> z, vx |-> vx, vz |-> vz, damage |-> damage]

\* the payload of a move that asks for the place o.dx, o.dz away from where
\* the server has the player
MoveData(player, o) ==
  [x |-> player.x + o.dx, z |-> player.z + o.dz, angle |-> o.angle]

Step(in) ==
  \/ \E d \in in.clock : Clock(d, in.maxClock)
  \/ \E s \in in.sockets, i \in in.spawn, n \in NameNums :
       Connect(s, spawnPoints[i], n)
  \/ \E s \in in.sockets : Disconnect(s)
  \/ \E s \in in.movers, o \in in.move :
       /\ Has(players, s)
       /\ Get(players, s).z + o.dz >= in.south
       /\ Move(s, MoveData(Get(players, s), o))
  \/ \E s \in in.shooters, shots \in in.shoot : Shoot(s, shots, in.maxProjectiles)
  \/ \E s \in in.throwers, data \in in.molotov : Molotov(s, data, in.maxFireZones)
  \/ \E s \in in.actors, on \in in.flash : ToggleFlashlight(s, on)
  \/ \E s \in in.actors, amount \in in.amount, from \in {None} :
       TakeDamage(s, amount, from, Hp(in.maxHealth))
  \/ \E s \in in.actors, i \in in.spawn : Respawn(s, spawnPoints[i])
  \/ \E s \in in.actors, len \in in.chat : Chat(s, len)
  \/ \E s \in in.faulty : ShootNoList(s)
  \/ \E s \in in.faulty : ChatNoString(s)
  \/ Tick(in.least)

\* moves: 1.9 to the south, exactly 2 to the north, exactly 2 askew, far away
South == [dx |-> 0, dz |-> -19, angle |-> 90]
North2 == [dx |-> 0, dz |-> 20, angle |-> 90]
Askew2 == [dx |-> 12, dz |-> 16, angle |-> 90]
Far == [dx |-> 300, dz |-> 300, angle |-> 45]

\* the least the clients do: one socket at the first spawn point, a move from
\* far away, one shot that stays at that spawn point, one molotov on it, a
\* deadly takeDamage, a short chat message, and a clock that moves on once
Quiet ==
  [sockets |-> {"s1"},
   movers |-> {"s1"},
   shooters |-> {"s1"},
   throwers |-> {"s1"},
   actors |-> {"s1"},
   faulty |-> {"s1"},
   spawn |-> {1},
   move |-> {Far},
   south |-> spawnPoints[1].z,
   shoot |-> { << Shot(-330, -310, 0, 0, Hp(35)) >> },
   molotov |-> { [x |-> -330, z |-> -310, radius |-> 30] },
   amount |-> {Hp(150)},
   chat |-> {3},
   flash |-> {TRUE},
   clock |-> {1},
   least |-> 1,
   maxClock |-> MaxClock,
   maxProjectiles |-> MaxProjectiles,
   maxFireZones |-> MaxFireZones,
   maxHealth |-> MaxHealth]

\* two sockets that move 1.9 south of the first spawn point once or ask for
\* more; takeDamage with a deadly amount and a negative one
Inputs ==
  [Quiet EXCEPT
     !.sockets = {"s1", "s2"},
     !.actors = {"s1", "s2"},
     !.movers = {"s1", "s2"},
     !.shooters = {"s1", "s2"},
     !.throwers = {"s1", "s2"},
     !.move = {South, North2, Askew2, Far},
     !.south = spawnPoints[1].z - 19 * MaxMoves,
     !.amount = {Hp(150), -Hp(50)}]

Next == Step(Inputs)

Spec == Init /\ [][Next]_vars

\* two sockets, one of which moves like those of Inputs, that do little else
MoveInputs ==
  [Quiet EXCEPT
     !.sockets = {"s1", "s2"},
     !.actors = {"s1", "s2"},
     !.move = {South, North2, Askew2, Far},
     !.south = spawnPoints[1].z - 19 * MaxMoves]

SpecMove == Init /\ [][Step(MoveInputs)]_vars

\* shoot with one shot and with two shots in the payload
ShootInputs ==
  [Quiet EXCEPT
     !.sockets = {"s1", "s2"},
     !.actors = {"s1", "s2"},
     !.shooters = {"s1", "s2"},
     !.shoot = { << Shot(-330, -310, 0, 0, Hp(35)) >>,
                 << Shot(680, 0, 10, 0, Hp(10)), Shot(100, 50, 0, 0, -Hp(10)) >> },
     !.maxProjectiles = MaxShots]

SpecShoot == Init /\ [][Step(ShootInputs)]_vars

\* molotovs on the first spawn point, beside it and far from it
FireInputs ==
  [Quiet EXCEPT
     !.molotov = { [x |-> -330, z |-> -310, radius |-> 30],
                   [x |-> -320, z |-> -300, radius |-> 30],
                   [x |-> 0, z |-> 0, radius |-> 30] },
     !.amount = {Hp(150), Hp(99)},
     !.clock = {1, 2},
     !.maxClock = FireClock,
     !.maxFireZones = MaxZones]

SpecFire == Init /\ [][Step(FireInputs)]_vars

\* a clock that stalls for 209.9 s, which takes the ring to 42.5 and in two
\* ticks to 5.04, or for 420 s, which takes it to its floor: the first spawn
\* point is 45.3 from the centre, the sixth 11.2
RingInputs ==
  [Quiet EXCEPT
     !.spawn = {1, 6},
     !.clock = {2099, 4200},
     !.maxClock = RingClock]

SpecRing == Init /\ [][Step(RingInputs)]_vars

\* two sockets on the first and the sixth spawn point, the one with a deadly
\* shot on the sixth, the other with a molotov on it, and a clock that stalls
\* for 210 s
DeathInputs ==
  [Quiet EXCEPT
     !.sockets = {"s1", "s2"},
     !.actors = {"s1", "s2"},
     !.throwers = {"s2"},
     !.spawn = {1, 6},
     !.shoot = { << Shot(100, 50, 0, 0, Hp(100)) >> },
     !.molotov = { [x |-> 100, z |-> 50, radius |-> 30] },
     !.clock = {2100}]

SpecDeath == Init /\ [][Step(DeathInputs)]_vars

\* one socket walks south of the first spawn point until it is 0.1 outside
\* the map bounds, the other shoots at the end of its way
WalkInputs ==
  [Quiet EXCEPT
     !.sockets = {"s1", "s2"},
     !.actors = {"s1", "s2"},
     !.shooters = {"s2"},
     !.move = {South},
     !.south = spawnPoints[1].z - 19 * WalkMoves,
     !.shoot = { << Shot(-330, -310 - 19 * WalkMoves, 0, 0, Hp(35)) >> }]

SpecWalk == Init /\ [][Step(WalkInputs)]_vars

\* one socket walks south of the first spawn point into the margin of the
\* southern wall, at z = -40.5; the other shoots from z = -38.5 with the
\* velocity that takes the projectile there in 0.1 s
WallInputs ==
  [Quiet EXCEPT
     !.sockets = {"s1", "s2"},
     !.shooters = {"s2"},
     !.throwers = {"s2"},
     !.actors = {"s2"},
     !.move = {South},
     !.south = spawnPoints[1].z - 19 * WallMoves,
     !.shoot = { << Shot(-330, -385, 0, -20, Hp(35)) >> }]

SpecWall == Init /\ [][Step(WallInputs)]_vars

\* three sockets on the first spawn point: one shoots a projectile that
\* stays there, another takes a deadly damage or respawns
HitInputs ==
  [Quiet EXCEPT
     !.sockets = {"s1", "s2", "s3"},
     !.actors = {"s2"}]

SpecHit == Init /\ [][Step(HitInputs)]_vars

\* two sockets, one of which takes damage: its whole health, a part of it,
\* and a negative amount
DamageInputs ==
  [Quiet EXCEPT
     !.sockets = {"s1", "s2"},
     !.amount = {Hp(100), Hp(40), -Hp(60)}]

SpecDamage == Init /\ [][Step(DamageInputs)]_vars

\* two sockets on the first spawn point, a molotov on it, shots that start
\* off the map and takeDamage of 0; a clock that stalls for 209.9 s, which takes the ring to 42.5 and
\* kills who is outside it or in the fire, or moves on by 5 s, which costs
\* 25 hp outside the ring and 75 hp in the fire
ZoneInputs ==
  [Quiet EXCEPT
     !.sockets = {"s1", "s2"},
     !.movers = {"s2"},
     !.shooters = {"s2"},
     !.throwers = {"s2"},
     !.actors = {"s2"},
     !.faulty = {"s2"},
     !.shoot = { << Shot(2000, 0, 0, 0, Hp(35)) >> },
     !.amount = {0},
     !.clock = {50, 2099},
     !.maxClock = RingClock]

SpecZone == Init /\ [][Step(ZoneInputs)]_vars

\* one socket and a clock that moves on by 0.1 s, 0.2 s or 0.9 s: ticks on the
\* second, ticks after it, and ticks that are 0.2 s apart around it
LateInputs ==
  [Quiet EXCEPT
     !.clock = {1, 2, 9},
     !.maxClock = RingClock]

SpecLate == Init /\ [][Step(LateInputs)]_vars

\* one socket that shoots a projectile without velocity where it stands or
\* one off the map, and ticks that never stop: they follow each other within
\* the same 100 ms once the clock has stopped
ForeverInputs ==
  [Quiet EXCEPT
     !.shoot = { << Shot(-330, -310, 0, 0, Hp(35)) >>,
                 << Shot(2000, 0, 0, 0, Hp(35)) >> },
     !.least = 0]

\* setInterval calls the tick again and again
SpecForever ==
  Init /\ [][Step(ForeverInputs)]_vars /\ WF_vars(Tick(ForeverInputs.least))

\* the x and the z of the edges of the four wall rectangles with their
\* margin, one tenth on either side of them, and the middle of the map
EdgeXs == {-711, -710, -706, -705, -690, -689, 0, 689, 690, 705, 706, 710, 711}
EdgeZs == {-411, -410, -406, -405, -390, -389, 0, 389, 390, 405, 406, 410, 411}

\* points on the long edges of the west wall with its margin and one tenth
\* off them, on the outer edge of the north wall, on the short edge of the
\* west wall where the north wall does not cover it, and the middle of the map
EdgePoints ==
  ({-711, -710, -690, -689} \X {0})
    \cup {<<0, 410>>, <<0, 411>>, <<-708, 405>>, <<-708, 406>>, <<0, 0>>}

\* one socket that shoots a projectile without velocity at one of these
\* points; the tick applies checkWallCollision to it
EdgeInputs ==
  [Quiet EXCEPT
     !.shoot = { << Shot(p[1], p[2], 0, 0, Hp(35)) >> : p \in EdgePoints },
     !.molotov = { [x |-> 0, z |-> 0, radius |-> 0] },
     !.amount = {0}]

SpecEdge == Init /\ [][Step(EdgeInputs)]_vars

\* one socket that shoots from x = 68, two units west of the eastern wall,
\* which with its margin spans x from 69 to 71: a projectile that a tick of
\* 0.1 s takes to x = 69, into the margin, one that it takes to 72, beyond
\* the wall, one that it takes to 81, out of the map, and one that it takes
\* to the west
FastInputs ==
  [Quiet EXCEPT
     !.shoot = { << Shot(680, 0, vx, 0, Hp(35)) >> : vx \in {10, 40, 130, -40} },
     !.molotov = { [x |-> 0, z |-> 0, radius |-> 0] },
     !.amount = {0}]

SpecFast == Init /\ [][Step(FastInputs)]_vars

----------------------------------------------------------------------------
(* The claims *)

Player(id) == Get(players, id)

\* the squared distance between a move payload and where the server has the
\* player
Moved2(player, data) ==
  (data.x - player.x) * (data.x - player.x) + (data.z - player.z) * (data.z - player.z)

\* C1: a move whose payload is 2 or more away from the player's position
\* (20 * 20 = 400 or more, squared) changes no player and emits nothing; a
\* move of less than 2 sets x, z and angle to the payload and emits one
\* playerMoved, which carries the payload
C1_MoveCap ==
  [][last'.op = "move" =>
       LET s == last'.who
           data == last'.data
       IN IF Moved2(Player(s), data) >= 400
          THEN players' = players /\ events' = <<>>
          ELSE /\ Get(players', s) = [Player(s) EXCEPT !.x = data.x, !.z = data.z,
                                                        !.angle = data.angle]
               /\ \A i \in 1..Len(players) :
                    players[i].id # s => players'[i] = players[i]
               /\ Len(events') = 1
               /\ events'[1].name = "playerMoved"
               /\ events'[1].id = s
               /\ events'[1].data = data]_vars

\* a move of 1.9 was accepted: the player stands where the payload said
C1_Witness ==
  /\ last.op = "move"
  /\ Len(events) = 1
  /\ events[1].name = "playerMoved"
  /\ Player(last.who).z = spawnPoints[1].z - 19
  /\ Player(last.who).angle = 90

\* C2: the health of every player lies in [0, 100]
C2_HealthRange ==
  \A i \in 1..Len(players) :
    players[i].health >= 0 /\ players[i].health <= Hp(100)

\* the fire zones that are still active in the tick that comes and cover
\* the player: a zone whose timeLeft the tick lowers to 0 burns nobody
Covering(player) ==
  {k \in 1..Len(fireZones) :
     /\ fireZones[k].timeLeft - 1 > 0
     /\ (fireZones[k].x - player.x) * (fireZones[k].x - player.x)
          + (fireZones[k].z - player.z) * (fireZones[k].z - player.z)
        < fireZones[k].radius * fireZones[k].radius}

\* the step emitted nothing that tells of a hit or of ring damage to the
\* player: what its health lost, it lost to fire
OnlyFire(id) ==
  \A n \in 1..Len(events') :
    events'[n].id = id =>
      /\ events'[n].name \notin {"playerHit", "ringDamage"}
      /\ events'[n].name = "playerDied" => events'[n].by = "fire"

\* C3: in a tick of delta a living player that one or more active fire zones
\* cover loses 15 x delta (3 a clock unit, in health units) in all, clamped
\* at 0, and nothing to fire when no active zone covers it
C3_FireOnce ==
  [][last'.op = "tick" =>
       \A i \in 1..Len(players) :
         (players[i].health > 0 /\ OnlyFire(players[i].id)) =>
           players'[i].health =
             IF Covering(players[i]) # {}
             THEN Max(0, players[i].health - 3 * last'.amount)
             ELSE players[i].health]_vars

\* the step emitted nothing that tells of a hit or of fire damage to the
\* player: what its health lost, it lost to the ring
OnlyRing(id) ==
  \A n \in 1..Len(events') :
    events'[n].id = id =>
      /\ events'[n].name \notin {"playerHit", "fireDamage"}
      /\ events'[n].name = "playerDied" => events'[n].by = "ring"

\* C4: in every tick of a started game a living player farther from the
\* centre than the radius of that tick loses 5 x delta (1 a clock unit, in
\* health units), clamped at 0, be the ring above its floor or at it
C4_RingDamage ==
  [][(last'.op = "tick" /\ gameStarted) =>
       \A i \in 1..Len(players) :
         (/\ players[i].health > 0
          /\ OutsideRing(players[i], ringRadius')
          /\ OnlyRing(players[i].id)) =>
           players'[i].health = Max(0, players[i].health - last'.amount)]_vars

\* the ids the step is about: the players before it and those in its events
Concerned == PlayerIds \cup {events'[n].id : n \in 1..Len(events')}

\* C5: a step emits one playerDied about a player when it takes the health
\* of that player from above 0 to 0, and none otherwise; and the health of a
\* dead player rises again only in the respawn of that player, which emits
\* playerRespawned: so a playerRespawned lies between two playerDied
C5_DiedOnce ==
  [][\A id \in Concerned :
       /\ Len(About(events', "playerDied", id)) =
            IF /\ Has(players, id) /\ Has(players', id)
               /\ Player(id).health > 0
               /\ Get(players', id).health = 0
            THEN 1 ELSE 0
       /\ (/\ Has(players, id) /\ Has(players', id)
           /\ Player(id).health = 0
           /\ Get(players', id).health > 0) =>
            /\ last'.op = "respawn" /\ last'.who = id
            /\ Len(About(events', "playerRespawned", id)) = 1]_vars

\* one tick killed a player by the ring and another by fire
C5_Witness ==
  /\ last.op = "tick"
  /\ \E m, n \in 1..Len(events) :
       /\ events[m].name = "playerDied" /\ events[m].by = "ring"
       /\ events[n].name = "playerDied" /\ events[n].by = "fire"
       /\ Player(events[m].id).health = 0
       /\ Player(events[n].id).health = 0

DamageEvents == {"playerHit", "playerDamaged", "ringDamage", "fireDamage"}

\* C6: a player whose health is 0 keeps health 0 in every step but its own
\* respawn, and the step emits no playerHit, playerDamaged, ringDamage,
\* fireDamage (nor playerDied) about it; nor does a step emit one of the four
\* about a player after the playerDied about that player
C6_DeadStaysDead ==
  [][/\ \A i \in 1..Len(players) :
          (/\ players[i].health = 0
           /\ Has(players', players[i].id)
           /\ ~(last'.op = "respawn" /\ last'.who = players[i].id)) =>
            /\ Get(players', players[i].id).health = 0
            /\ \A n \in 1..Len(events') :
                 events'[n].id = players[i].id =>
                   events'[n].name \notin DamageEvents \cup {"playerDied"}
     /\ \A m, n \in 1..Len(events') :
          (m < n /\ events'[m].name = "playerDied" /\ events'[n].id = events'[m].id)
            => events'[n].name \notin DamageEvents]_vars

\* a tick ran the fire loop over a dead player that stands in a fire zone,
\* and emitted nothing about it
C6_Witness ==
  /\ last.op = "tick"
  /\ \E i \in 1..Len(players) :
       /\ players[i].health = 0
       /\ \E k \in 1..Len(fireZones) :
            Dist2(fireZones[k].x - players[i].x, fireZones[k].z - players[i].z)
              < fireZones[k].radius * fireZones[k].radius
       /\ \A n \in 1..Len(events) : events[n].id # players[i].id

\* C7: the radius of the safe zone never grows from a state to the next, and
\* is at least 5 and at most 80 in every state
C7_RingShrinks ==
  /\ [](ringRadius >= Ring(RingFloor) /\ ringRadius <= Ring(RingStart))
  /\ [][ringRadius' <= ringRadius]_vars

\* a tick took the countdown below 0, where the floor of the radius is at work
C7_Witness ==
  /\ last.op = "tick"
  /\ ringTimer < 0
  /\ ringRadius = Ring(RingFloor)

\* C8: with T the deltas of the ticks since the game started, summed, the
\* radius is max(5, 80 - T * 75 / 420): above 5 while T < 420 s, and 5 from
\* the first tick with T >= 420 s on
C8_RingOfTime ==
  /\ ringRadius =
       Max(Ring(RingFloor),
           Ring(RingStart)
             - (elapsed * (Ring(RingStart) - Ring(RingFloor))) \div Secs(RingSeconds))
  /\ elapsed < Secs(RingSeconds) => ringRadius > Ring(RingFloor)
  /\ elapsed >= Secs(RingSeconds) => ringRadius = Ring(RingFloor)

\* a tick after the one that took T to 420 s or over
C8_Witness ==
  /\ last.op = "tick"
  /\ elapsed - last.amount >= Secs(RingSeconds)
  /\ ringRadius = Ring(RingFloor)

\* C9: the projectiles in the store have ids that differ from one another
C9_DistinctIds ==
  \A i, j \in 1..Len(projectiles) :
    i # j => projectiles[i].id # projectiles[j].id

\* C10: the projectilesRemoved list of a tick names no projectile twice
C10_RemovedOnce ==
  \A n \in 1..Len(events) :
    events[n].name = "projectilesRemoved" =>
      \A i, j \in 1..Len(events[n].list) :
        i # j => events[n].list[i] # events[n].list[j]

\* where the tick that is being taken puts projectile i of the store
MovedTo(i) == Integrate(projectiles[i], last'.amount)

InWall(i) == checkWallCollision(MovedTo(i).x, MovedTo(i).z)

\* no other projectile of the store carries the id of projectile i
OnlyOf(i) ==
  \A k \in 1..Len(projectiles) : k # i => projectiles[k].id # projectiles[i].id

\* the playerHit events of a projectile id
HitsOf(evs, id) ==
  SelectSeq(evs, LAMBDA e : e.name = "playerHit" /\ e.list = <<id>>)

RemovedIds(evs) ==
  {id \in {projectiles[i].id : i \in 1..Len(projectiles)} :
     \E n \in 1..Len(evs) :
       evs[n].name = "projectilesRemoved" /\ InList(evs[n].list, id)}

\* C11: a projectile that a tick moves into a wall rectangle, margin
\* included, is removed by that tick (so that no later tick sees it) and
\* the tick emits no playerHit for it; a tick that moves every projectile
\* into a wall emits no playerHit and changes the health of no player but
\* by the ring and by fire
C11_WallFirst ==
  [][last'.op = "tick" =>
       /\ \A i \in 1..Len(projectiles) :
            InWall(i) =>
              /\ \A k \in 1..Len(projectiles') :
                   projectiles'[k].id # projectiles[i].id
              /\ projectiles[i].id \in RemovedIds(events')
              /\ OnlyOf(i) => Len(HitsOf(events', projectiles[i].id)) = 0
       /\ (\A i \in 1..Len(projectiles) : InWall(i)) =>
            /\ Len(Named(events', "playerHit")) = 0
            /\ \A j \in 1..Len(players) :
                 (\A n \in 1..Len(events') :
                    events'[n].id = players[j].id =>
                      events'[n].name \notin {"ringDamage", "fireDamage", "playerDied"})
                   => players'[j] = players[j]]_vars

\* a tick removed a projectile and hit nobody, and a living player that is
\* not its owner stands in the wall margin, where the projectile went
C11_Witness ==
  /\ last.op = "tick"
  /\ Len(Named(events, "playerHit")) = 0
  /\ \E n \in 1..Len(events), j \in 1..Len(players) :
       /\ events[n].name = "projectilesRemoved"
       /\ Len(events[n].list) = 1
       /\ events[n].list[1][1] # players[j].id
       /\ players[j].health > 0
       /\ players[j].x = -330 /\ players[j].z = -405
       /\ checkWallCollision(players[j].x, players[j].z)

\* the tick that is being taken has projectile i within the hit radius of
\* player k, who is not its owner
InReach(i, k) ==
  /\ players[k].id # projectiles[i].ownerId
  /\ Dist2(MovedTo(i).x - players[k].x, MovedTo(i).z - players[k].z)
       < HitTenths * HitTenths

\* the step emits a playerDied about player k before its n-th event
DiedBefore(k, n) ==
  \E m \in 1..(n - 1) :
    events'[m].name = "playerDied" /\ events'[m].id = players[k].id

\* C12: a tick emits at most one playerHit for a projectile, and only for a
\* projectile of the store; the player hit is not the owner, is alive when
\* the tick comes to the projectile, is within 0.7 of it, and is the first
\* such player of the table; the hit takes the damage of the projectile from
\* the health of that player, and the projectile leaves the store in that
\* tick, so that it hits nobody later
C12_FirstHitOnly ==
  [][last'.op = "tick" =>
       /\ \A n \in 1..Len(events') :
            events'[n].name = "playerHit" =>
              \E i \in 1..Len(projectiles) : events'[n].list = <<projectiles[i].id>>
       /\ \A i \in 1..Len(projectiles) :
            OnlyOf(i) =>
              /\ Len(HitsOf(events', projectiles[i].id)) <= 1
              /\ \A n \in 1..Len(events') :
                   (events'[n].name = "playerHit" /\ events'[n].list = <<projectiles[i].id>>) =>
                     LET j == IndexOf(players, events'[n].id)
                     IN /\ Has(players, events'[n].id)
                        /\ events'[n].by = projectiles[i].ownerId
                        /\ ~InWall(i)
                        /\ InReach(i, j)
                        /\ players[j].health > 0
                        /\ ~DiedBefore(j, n)
                        /\ \A k \in 1..(j - 1) :
                             \/ ~InReach(i, k)
                             \/ players[k].health = 0
                             \/ DiedBefore(k, n)
                        /\ (\A m \in 1..Len(events') :
                              (m # n /\ events'[m].id = players[j].id) =>
                                (events'[m].name = "playerDied" /\ m = n + 1))
                             => players'[j].health =
                                  Max(0, players[j].health - projectiles[i].damage)
                        /\ \A k \in 1..Len(projectiles') :
                             projectiles'[k].id # projectiles[i].id]_vars

\* a tick hit a player that is not the first of the table: a dead player that
\* is not the owner either comes before it and stands where it stands, and
\* so does the owner, whose health is whole; the projectile has left the store
C12_Witness ==
  /\ last.op = "tick"
  /\ \E n \in 1..Len(events), j, k, o \in 1..Len(players) :
       /\ events[n].name = "playerHit"
       /\ players[j].id = events[n].id
       /\ players[o].id = events[n].by
       /\ k < j /\ k # o
       /\ players[k].health = 0
       /\ players[o].health = Hp(StartHealth)
       /\ players[k].x = players[j].x /\ players[k].z = players[j].z
       /\ players[o].x = players[j].x /\ players[o].z = players[j].z
       /\ \A q \in 1..Len(projectiles) : <<projectiles[q].id>> # events[n].list

\* C13: the table starts empty; the connection of a socket adds its id, which
\* was not there, and no other; the disconnect of a socket removes its id,
\* which was there, and no other; no other step changes the ids of the
\* table, which has one entry per id
C13_TableOfSockets ==
  /\ players = <<>>
  /\ [][/\ Len(players') = Cardinality(PlayerIds')
        /\ IF last'.op = "connect"
           THEN /\ last'.who \notin PlayerIds
                /\ PlayerIds' = PlayerIds \cup {last'.who}
           ELSE IF last'.op = "disconnect"
                THEN /\ last'.who \in PlayerIds
                     /\ PlayerIds' = PlayerIds \ {last'.who}
                ELSE PlayerIds' = PlayerIds]_vars

\* a socket has left and the other, whose health is 0, is still in the table
C13_Witness ==
  /\ last.op = "disconnect"
  /\ Len(players) = 1
  /\ players[1].id # last.who
  /\ players[1].health = 0

\* C14: the respawn of a player whose health is above 0 changes nothing and
\* emits nothing
C14_RespawnAlive ==
  [][(last'.op = "respawn" /\ Player(last'.who).health > 0) =>
       /\ players' = players
       /\ store' = store
       /\ events' = <<>>]_vars

\* a player that has lost health, and has not died, asked to respawn
C14_Witness ==
  /\ last.op = "respawn"
  /\ events = <<>>
  /\ Player(last.who).health > 0
  /\ Player(last.who).health < Hp(StartHealth)

SpawnPlaces == {spawnPoints[i] : i \in 1..Len(spawnPoints)}

\* C15: the respawn of a player whose health is 0 sets its health to 100, its
\* angle to 0 and its position to a spawn point, changes nothing else, and
\* emits one event, playerRespawned, to every connection, with the id, the
\* position and the health
C15_RespawnDead ==
  [][(last'.op = "respawn" /\ Player(last'.who).health = 0) =>
       LET s == last'.who
           respawned == Get(players', s)
       IN /\ Has(players', s)
          /\ respawned.health = Hp(100)
          /\ respawned.angle = 0
          /\ [x |-> respawned.x, z |-> respawned.z] \in SpawnPlaces
          /\ respawned = [Player(s) EXCEPT !.health = respawned.health, !.angle = 0,
                                          !.x = respawned.x, !.z = respawned.z]
          /\ Len(players') = Len(players)
          /\ \A i \in 1..Len(players) : players[i].id # s => players'[i] = players[i]
          /\ UNCHANGED <<projectiles, fireZones, ringRadius, ringTimer, gameStarted>>
          /\ Len(events') = 1
          /\ events'[1].name = "playerRespawned"
          /\ events'[1].to = PlayerIds
          /\ events'[1].id = s
          /\ events'[1].health = respawned.health
          /\ events'[1].data.x = respawned.x /\ events'[1].data.z = respawned.z]_vars

\* a player came back while another connection was there to hear of it
C15_Witness ==
  /\ last.op = "respawn"
  /\ Len(events) = 1
  /\ events[1].name = "playerRespawned"
  /\ events[1].to = PlayerIds
  /\ Len(players) = 2
  /\ Player(last.who).health = Hp(StartHealth)
  /\ Player(last.who).angle = 0

\* C16: takeDamage with amount a from a player with health h > 0 sets the
\* health to max(0, h - a), changes nothing else and emits playerDamaged
\* with that health; when a >= h the health is 0 and one playerDied follows,
\* and otherwise nothing follows
C16_TakeDamage ==
  [][(last'.op = "takeDamage" /\ Player(last'.who).health > 0) =>
       LET s == last'.who
           h == Player(s).health
           a == last'.amount
           health == IF h - a >= 0 THEN h - a ELSE 0
       IN /\ Has(players', s)
          /\ Get(players', s) = [Player(s) EXCEPT !.health = health]
          /\ Len(players') = Len(players)
          /\ \A i \in 1..Len(players) : players[i].id # s => players'[i] = players[i]
          /\ UNCHANGED <<projectiles, fireZones, ringRadius, ringTimer, gameStarted>>
          /\ Len(About(events', "playerDamaged", s)) = 1
          /\ events'[1].name = "playerDamaged"
          /\ events'[1].id = s
          /\ events'[1].health = health
          /\ IF a >= h
             THEN /\ health = 0
                  /\ Len(events') = 2
                  /\ events'[2].name = "playerDied"
                  /\ events'[2].id = s
             ELSE /\ health > 0
                  /\ Len(events') = 1]_vars

\* a player at 20 took 40
C16_Witness ==
  /\ last.op = "takeDamage"
  /\ last.amount = Hp(40)
  /\ Len(events) = 2
  /\ events[1].name = "playerDamaged" /\ events[1].health = 0
  /\ events[2].name = "playerDied"
  /\ Player(last.who).health = 0

\* C17: shoot, molotov and takeDamage from a player whose health is 0 change
\* neither the players nor the projectiles nor the fire zones, and emit
\* nothing
C17_DeadAreDropped ==
  [][(/\ last'.op \in {"shoot", "molotov", "takeDamage"}
      /\ Player(last'.who).health = 0) =>
       /\ store' = store
       /\ events' = <<>>]_vars

\* a dead player shot while another player was connected
C17_Witness ==
  /\ last.op = "shoot"
  /\ Player(last.who).health = 0
  /\ Len(players) = 2
  /\ events = <<>>

\* C18: a command whose handler fails on its payload leaves the store as it
\* was and the process running, with its game loop and its connections
C18_FailureIsolated ==
  [][last'.op \in {"shootNoList", "chatNoString"} =>
       /\ store' = store
       /\ running']_vars

\* C19: a connection appends the new player, with health 100 and on a spawn
\* point, to the table and emits two events: first init, to the new socket
\* alone, with the players (the new one among them), the projectiles, the
\* fire zones, the radius and the timer of the store; then playerJoined, to
\* every other socket and not to the new one
C19_InitThenJoined ==
  [][last'.op = "connect" =>
       LET s == last'.who
       IN /\ Len(players') = Len(players) + 1
          /\ SubSeq(players', 1, Len(players)) = players
          /\ players'[Len(players')].id = s
          /\ players'[Len(players')].health = Hp(100)
          /\ [x |-> players'[Len(players')].x, z |-> players'[Len(players')].z]
               \in SpawnPlaces
          /\ Len(events') = 2
          /\ events'[1].name = "init"
          /\ events'[1].to = {s}
          /\ events'[1].players = players'
          /\ events'[1].projectiles = projectiles'
          /\ events'[1].fireZones = fireZones'
          /\ events'[1].data.radius = ringRadius'
          /\ events'[1].data.timer = ringTimer'
          /\ events'[2].name = "playerJoined"
          /\ events'[2].id = s
          /\ events'[2].to = PlayerIds' \ {s}
          /\ s \notin events'[2].to]_vars

\* a socket joined another in a store that had a projectile and a fire zone
C19_Witness ==
  /\ last.op = "connect"
  /\ Len(events) = 2
  /\ events[1].name = "init"
  /\ Len(events[1].players) = 2
  /\ Len(events[1].projectiles) = 1
  /\ Len(events[1].fireZones) = 1
  /\ events[2].to # {}

ToOthers == {"playerMoved", "flashlightToggled"}

ToAll == {"projectilesFired", "fireCreated", "playerDamaged", "playerDied",
          "playerRespawned"}

\* C20: playerMoved and flashlightToggled go to every socket of the table but
\* the one whose command it was, and not to that one; projectilesFired,
\* fireCreated, playerDamaged, playerDied and playerRespawned go to every
\* socket of the table, the one whose command it was among them
C20_Recipients ==
  [][\A n \in 1..Len(events') :
       /\ events'[n].name \in ToOthers =>
            /\ events'[n].id = last'.who
            /\ events'[n].to = PlayerIds' \ {last'.who}
            /\ last'.who \notin events'[n].to
       /\ events'[n].name \in ToAll =>
            /\ events'[n].to = PlayerIds'
            /\ last'.op # "tick" => last'.who \in events'[n].to]_vars

\* a move went to the other socket and not to the one that moved
C20_Witness ==
  /\ last.op = "move"
  /\ Len(events) = 1
  /\ events[1].name = "playerMoved"
  /\ events[1].to # {}
  /\ events[1].to = PlayerIds \ {last.who}

\* C21: a ringDamage or fireDamage event goes to the socket of the player it
\* is about, which is in the table, and to no other
C21_DamageToVictimOnly ==
  [][\A n \in 1..Len(events') :
       events'[n].name \in {"ringDamage", "fireDamage"} =>
         /\ events'[n].id \in PlayerIds
         /\ events'[n].to = {events'[n].id}]_vars

\* a tick sent ringDamage to one player and fireDamage to the other
C21_Witness ==
  /\ last.op = "tick"
  /\ \E m, n \in 1..Len(events) :
       /\ events[m].name = "ringDamage"
       /\ events[n].name = "fireDamage"
       /\ events[m].id # events[n].id
       /\ events[m].to = {events[m].id}
       /\ events[n].to = {events[n].id}

\* C22: a tick emits ringUpdate exactly when a whole second lies between the
\* time of the tick before it and its own
C22_UpdateEachSecond ==
  [][last'.op = "tick" =>
       ((\E n \in 1..Len(events') : events'[n].name = "ringUpdate")
          <=> lastTick \div Secs(1) # now \div Secs(1))]_vars

\* the projectile with this id is in the store
InStore(id) ==
  \E i \in 1..Len(projectiles) : projectiles[i].id = id

\* the ids a socket of SpecForever can give to a projectile
ForeverIds ==
  { <<s, t, 0>> : s \in ForeverInputs.sockets, t \in 0..ForeverInputs.maxClock }

\* C23: a projectile that is in the store is out of it some time later,
\* unless the server has stopped
C23_EventuallyRemoved ==
  \A id \in ForeverIds : InStore(id) ~> (~InStore(id) \/ ~running)

\* the fire zone with this id is in the store
Burning(zones, id) ==
  \E i \in 1..Len(zones) : zones[i].id = id

\* the step emitted fireZonesRemoved with this id in its list
Expired(id) ==
  \E n \in 1..Len(events') :
    events'[n].name = "fireZonesRemoved" /\ InList(events'[n].list, id)

\* what a molotov and a tick do to the lifetime of a fire zone whose id no
\* other zone of the store carries.  timeLeft counts intervals of
\* 1000 / TickHz ms: a zone of the store has between 1 and 300 of them left
FireLifetime ==
  /\ \A i \in 1..Len(fireZones') :
       fireZones'[i].timeLeft >= 1 /\ fireZones'[i].timeLeft * 1000 <= FireMs * TickHz
  /\ (last'.op = "molotov" /\ Len(fireZones') > Len(fireZones)) =>
       fireZones'[Len(fireZones')].timeLeft * 1000 = FireMs * TickHz
  /\ last'.op = "tick" =>
       /\ \A i \in 1..Len(fireZones) :
            (\A j \in 1..Len(fireZones) : j # i => fireZones[j].id # fireZones[i].id) =>
              IF fireZones[i].timeLeft - 1 <= 0
              THEN /\ ~Burning(fireZones', fireZones[i].id)
                   /\ Expired(fireZones[i].id)
              ELSE /\ \E k \in 1..Len(fireZones') :
                        fireZones'[k] = [fireZones[i] EXCEPT !.timeLeft = @ - 1]
                   /\ ~Expired(fireZones[i].id)
       /\ \A i \in 1..Len(players) :
            Covering(players[i]) = {} =>
              \A n \in 1..Len(events') :
                events'[n].id = players[i].id =>
                  /\ events'[n].name # "fireDamage"
                  /\ events'[n].name = "playerDied" => events'[n].by # "fire"

RECURSIVE RemoteHealth(_, _, _, _, _)
RemoteHealth(n, evs, c, p, health) ==
  IF n > Len(evs) THEN health
  ELSE RemoteHealth(n + 1, evs, c, p,
         IF c \in evs[n].to /\ evs[n].id = p
         THEN CASE evs[n].name \in {"playerHit", "playerDamaged", "playerRespawned"}
                     -> evs[n].health
                [] evs[n].name = "playerDied" -> 0
                [] OTHER -> health
         ELSE health)

\* C25: a client whose copy of another player's health is the server's before
\* a step has, once it has applied the events of the step, the server's
\* health of that player after it
C25_ClientHealth ==
  [][\A c \in PlayerIds, p \in PlayerIds :
       (c # p /\ Has(players', c) /\ Has(players', p)) =>
         RemoteHealth(1, events', c, p, Get(players, p).health)
           = Get(players', p).health]_vars

\* the nine commands of a client, as the model names the handler that ran
Commands ==
  {"connect", "move", "shoot", "molotov", "toggleFlashlight", "takeDamage",
   "respawn", "chat", "disconnect"}

\* C26: a step that is not a tick, the handler of a command above all, leaves
\* the radius and the countdown of the safe zone as they are
C26_RingFrame ==
  [][last'.op # "tick" => UNCHANGED <<ringRadius, ringTimer>>]_vars

\* a command has run on a ring that a tick had shrunk
C26_Witness ==
  /\ last.op \in Commands
  /\ ringRadius < Ring(RingStart)
  /\ ringTimer < Secs(RingSeconds)

\* C27: a move of a player whose health is 0 changes no player and emits
\* nothing
C27_DeadDoNotMove ==
  [][(/\ last'.op = "move"
      /\ Has(players, last'.who)
      /\ Get(players, last'.who).health = 0)
       => (players' = players /\ events' = <<>>)]_vars

\* C28: in a tick whose ring block runs, a living player outside the radius
\* of that tick either falls to 0, with one playerDied by the ring to all and
\* no ringDamage, or stays above 0, with one ringDamage of the new health to
\* the player alone and no playerDied by the ring
C28_RingOutcome ==
  [][(last'.op = "tick" /\ RingRuns) =>
       \A i \in 1..Len(players) :
         (players[i].health > 0 /\ OutsideRing(players[i], ringRadius')) =>
           LET id == players[i].id
               health == players[i].health - last'.amount
               died == SelectSeq(About(events', "playerDied", id), LAMBDA e : e.by = "ring")
               hurt == About(events', "ringDamage", id)
           IN IF health <= 0
              THEN /\ Len(died) = 1
                   /\ died[1].to = PlayerIds
                   /\ Len(hurt) = 0
                   /\ players'[i].health = 0
              ELSE /\ Len(hurt) = 1
                   /\ hurt[1].health = health
                   /\ hurt[1].to = {id}
                   /\ Len(died) = 0]_vars

\* a tick has hurt with the ring a player that lives on, next to a player
\* that the ring has killed in the tick before: no fire zone was ever made
C28_Witness ==
  /\ last.op = "tick"
  /\ fireZones = <<>>
  /\ \E n \in 1..Len(events), i \in 1..Len(players) :
       /\ events[n].name = "ringDamage" /\ events[n].health > 0
       /\ players[i].id # events[n].id
       /\ players[i].health = 0

\* the ids of a sequence of projectiles or fire zones, in its order
IdsOf(seq) == [i \in 1..Len(seq) |-> seq[i].id]

\* the ids of the lists of the events of a name
Listed(evs, name) ==
  UNION { {evs[n].list[k] : k \in 1..Len(evs[n].list)} :
            n \in {m \in 1..Len(evs) : evs[m].name = name} }

\* what a tick tells of the entities of one store: at most one event of the
\* name, one exactly when an id of the store before the tick is not in the
\* store after it, listing those ids and no other; the entities with other
\* ids stay, in their order
RemovalTold(name, before, after) ==
  LET gone == {before[i].id : i \in 1..Len(before)} \ {after[i].id : i \in 1..Len(after)}
  IN /\ Len(Named(events', name)) <= 1
     /\ Len(Named(events', name)) = 1 <=> gone # {}
     /\ Listed(events', name) = gone
     /\ IdsOf(after) = SelectSeq(IdsOf(before), LAMBDA id : id \notin gone)

NearWall(x, z) ==
  \E i \in 1..Len(walls) :
    /\ 2 * Abs(x - walls[i].x) <= walls[i].width + 2 * WallMarginTenths
    /\ 2 * Abs(z - walls[i].z) <= walls[i].depth + 2 * WallMarginTenths

\* C30: checkWallCollision is true of the points that are near a wall in this
\* sense and false of the others, on the edges of every wall and off them;
\* the tick, which applies it to the place of every projectile, removes
\* those of which it is true
C30_WallTest ==
  [][last'.op = "tick" =>
       /\ \A x \in EdgeXs, z \in EdgeZs : checkWallCollision(x, z) <=> NearWall(x, z)
       /\ \A i \in 1..Len(projectiles) :
            LET moved == Integrate(projectiles[i], last'.amount)
            IN /\ checkWallCollision(moved.x, moved.z) <=> NearWall(moved.x, moved.z)
               /\ checkWallCollision(moved.x, moved.z) =>
                    \A k \in 1..Len(projectiles') : projectiles'[k].id # moved.id]_vars

\* a tick has applied the test to a projectile that is one tenth off the
\* margin of a wall, and has kept it
C30_Witness ==
  /\ last.op = "tick"
  /\ \E i \in 1..Len(projectiles) :
       /\ ~NearWall(projectiles[i].x, projectiles[i].z)
       /\ NearWall(projectiles[i].x + 1, projectiles[i].z)

\* C31: an accepted move never ends at a place for which checkWallCollision
\* holds, that is inside a wall enlarged by the margin of 0.5
C31_MovesKeepOffWalls ==
  [][(/\ last'.op = "move"
      /\ Has(players, last'.who)
      /\ MoveAccepted(Get(players, last'.who), last'.data))
       => LET player == Get(players', last'.who)
          IN ~checkWallCollision(player.x, player.z)]_vars

\* the fields of a player that a command of its own socket can change
Own(player) == [id |-> player.id, name |-> player.name]

\* the commands a connected socket sends, the two malformed ones included
Inbound ==
  {"move", "shoot", "molotov", "toggleFlashlight", "takeDamage", "respawn",
   "chat", "shootNoList", "chatNoString"}

IsPrefix(old, new) ==
  /\ Len(old) <= Len(new)
  /\ \A i \in 1..Len(old) : new[i] = old[i]

\* C32: a command of a socket leaves the table with the same players in the
\* same order, every record of another player as it was and the id and the
\* name of its own; the projectiles and the fire zones that were there stay,
\* and only shoot, resp. molotov (one zone), adds to them
C32_CommandFrame ==
  [][(last'.op \in Inbound) =>
       /\ Len(players') = Len(players)
       /\ \A i \in 1..Len(players) :
            IF players[i].id = last'.who
            THEN Own(players'[i]) = Own(players[i])
            ELSE players'[i] = players[i]
       /\ IsPrefix(projectiles, projectiles')
       /\ (last'.op # "shoot" => projectiles' = projectiles)
       /\ IsPrefix(fireZones, fireZones')
       /\ Len(fireZones') <= Len(fireZones) + 1
       /\ (last'.op # "molotov" => fireZones' = fireZones)]_vars

\* the second player of the table has taken damage, has died of it or has
\* respawned while the first is as it was when it joined
C32_Witness ==
  /\ last.op \in {"takeDamage", "respawn"}
  /\ Len(players) = 2
  /\ players[2].id = last.who
  /\ Len(events) > 0
  /\ players[1].health = Hp(StartHealth)

\* the events that carry a health
HealthEvents ==
  {"playerHit", "playerDamaged", "ringDamage", "fireDamage", "playerRespawned"}

\* C33: every health the last step has sent lies between 0 and 100 and is
\* the health the store has for that player after the step
C33_EventHealth ==
  \A k \in 1..Len(events) :
    (events[k].name \in HealthEvents /\ Has(players, events[k].id)) =>
      /\ events[k].health >= 0
      /\ events[k].health <= Hp(StartHealth)
      /\ events[k].health = Get(players, events[k].id).health

\* C34: the owner of every stored projectile is in the player table, and so
\* is the killer a playerDied of a projectile hit names
C34_OwnersConnected ==
  /\ \A i \in 1..Len(projectiles) : Has(players, projectiles[i].ownerId)
  /\ \A k \in 1..Len(events) :
       (/\ events[k].name = "playerDied"
        /\ last.op = "tick"
        /\ events[k].by \notin {"ring", "fire"})
         => Has(players, events[k].by)

\* C35: the countdown of the safe zone is never below 0 and never above 420 s
C35_TimerRange ==
  /\ ringTimer >= 0
  /\ ringTimer <= Secs(RingSeconds)

\* C36: after a tick no projectile of the store is inside a wall enlarged by
\* the margin, and none is outside the map
C36_KeptAreClear ==
  [][(last'.op = "tick") =>
       \A i \in 1..Len(projectiles') :
         /\ ~checkWallCollision(projectiles'[i].x, projectiles'[i].z)
         /\ Abs(projectiles'[i].x) <= Len10(MapX)
         /\ Abs(projectiles'[i].z) <= Len10(MapZ)]_vars

\* a tick has moved a projectile and kept it
C36_Witness ==
  /\ last.op = "tick"
  /\ last.amount > 0
  /\ \E i \in 1..Len(projectiles) : projectiles[i].x # 680

\* The part of the way from p to p + d, as a fraction <<numerator,
\* denominator>> with a positive denominator, at which a coordinate enters
\* and leaves the interval from lo to hi
Enters(p, d, lo, hi) ==
  IF d > 0 THEN <<lo - p, d>> ELSE IF d < 0 THEN <<p - hi, -d>> ELSE <<0, 1>>

Leaves(p, d, lo, hi) ==
  IF d > 0 THEN <<hi - p, d>> ELSE IF d < 0 THEN <<p - lo, -d>> ELSE <<1, 1>>

NotAfter(a, b) == a[1] * b[2] <= b[1] * a[2]

\* the straight way from `from` to `to` has a point in the rectangle of the
\* wall (coordinates doubled: wall.width / 2 is a half)
Crosses(from, to, wall) ==
  LET x == 2 * from.x
      z == 2 * from.z
      dx == 2 * (to.x - from.x)
      dz == 2 * (to.z - from.z)
      west == 2 * wall.x - wall.width
      east == 2 * wall.x + wall.width
      south == 2 * wall.z - wall.depth
      north == 2 * wall.z + wall.depth
      in == {Enters(x, dx, west, east), Enters(z, dz, south, north), <<0, 1>>}
      out == {Leaves(x, dx, west, east), Leaves(z, dz, south, north), <<1, 1>>}
  IN /\ (dx = 0 => (west <= x /\ x <= east))
     /\ (dz = 0 => (south <= z /\ z <= north))
     /\ \A a \in in, b \in out : NotAfter(a, b)

\* C37: a projectile whose way in a tick, from where it was to where the
\* tick moves it, crosses the rectangle of a wall is not in the store after
\* that tick
C37_NoTunnelling ==
  [][(last'.op = "tick") =>
       \A i \in 1..Len(projectiles) :
         (\E w \in 1..Len(walls) : Crosses(projectiles[i], MovedTo(i), walls[w]))
           => \A j \in 1..Len(projectiles') : projectiles'[j].id # projectiles[i].id]_vars

\* C38: while the game has not started the radius is 80 and the countdown
\* 420 s, whatever ticks run; a started game stays started, and no step of it
\* raises the radius or the countdown
C38_StartedForGood ==
  [][/\ (~gameStarted' => (ringRadius' = Ring(RingStart) /\ ringTimer' = Secs(RingSeconds)))
     /\ (gameStarted => /\ gameStarted'
                         /\ ringRadius' <= ringRadius
                         /\ ringTimer' <= ringTimer)]_vars

\* a player has connected to a started game that everyone had left, with a
\* ring that ticks had shrunk; before the game started a tick had measured
\* some time, which lastTick holds and elapsed does not
C38_Witness ==
  /\ last.op = "connect"
  /\ Len(players) = 1
  /\ gameStarted
  /\ elapsed < lastTick
  /\ ringRadius < Ring(RingStart)
  /\ ringTimer < Secs(RingSeconds)

====
